---------------------------- MODULE Spec2Model ----------------------------
(***************************************************************************)
(* Model of src/index.ts: SQLiteToSQLExporter and main().                  *)
(*                                                                         *)
(* Text is modelled by TLA+ strings (Len, \o, SubSeq, Head and Tail act on *)
(* them character by character).  A JavaScript value that is string | null *)
(* or string | number | null is a tagged record: Null, Str(s), Num(n).     *)
(* Numbers are integers (TLA+ has no floating point); their rendering is   *)
(* the decimal form String(n) gives.                                       *)
(***************************************************************************)
EXTENDS Integers, Sequences, FiniteSets, TLC

VARIABLES
    pc,             \* position of main() and export(): the pending operation
    master,         \* rows of sqlite_master: a set of [type, name]
    handle,         \* this.db: "none", "open" or "closed"
    tables,         \* const tables of export(): sequence of names
    idx,            \* position of the for..of loop over tables (1-based)
    sqlStatements,  \* const sqlStatements of export(): sequence of strings
    file,           \* content of the destination file: Null or Str(text)
    writes,         \* number of fs.writeFile calls issued
    queries,        \* the db.all calls issued so far, in order
    scanned,        \* the rows arrays the row scans resolved with, in order
    failure,        \* what the catch of main() caught: "none" before
    arg,            \* input of a rendering function applied on its own
    result          \* its output

vars == <<pc, master, handle, tables, idx, sqlStatements, file, writes,
          queries, scanned, failure, arg, result>>

runVars == <<master, handle, tables, idx, sqlStatements, file, writes,
             queries, scanned, failure>>

-----------------------------------------------------------------------------
(* JavaScript values *)

Null == [t |-> "null"]

Str(s) == [t |-> "string", s |-> s]

Num(n) == [t |-> "number", n |-> n]

-----------------------------------------------------------------------------
(* String primitives *)

UpperLetters == "ABCDEFGHIJKLMNOPQRSTUVWXYZ"

LowerLetters == "abcdefghijklmnopqrstuvwxyz"

\* Index of the one-character string c in s, 0 when absent.
IndexOf(c, s) ==
    IF \E i \in 1..Len(s) : SubSeq(s, i, i) = c
    THEN CHOOSE i \in 1..Len(s) : SubSeq(s, i, i) = c
    ELSE 0

RECURSIVE MapChars(_, _, _)
\* s with every character of alphabet from replaced by the one at the same
\* position of to.
MapChars(s, from, to) ==
    IF s = "" THEN ""
    ELSE LET c == Head(s)
             i == IndexOf(c, from)
         IN  (IF i = 0 THEN c ELSE SubSeq(to, i, i)) \o MapChars(Tail(s), from, to)

\* String.prototype.toLowerCase (ASCII)
ToLowerCase(s) == MapChars(s, UpperLetters, LowerLetters)

\* String.prototype.toUpperCase (ASCII)
ToUpperCase(s) == MapChars(s, LowerLetters, UpperLetters)

\* String.prototype.includes
Includes(s, sub) ==
    \E i \in 1..(Len(s) - Len(sub) + 1) : SubSeq(s, i, i + Len(sub) - 1) = sub

\* The identifier delimiter of the template literals (U+0060).  SANY's lexer
\* accepts no U+0060 inside a string literal, so the model writes the
\* delimiter as this one-character string; no name, type or value of the
\* model contains it.
Backtick == "\""

RECURSIVE Join(_, _)
\* Array.prototype.join
Join(seq, sep) ==
    IF Len(seq) = 0 THEN ""
    ELSE IF Len(seq) = 1 THEN seq[1]
    ELSE seq[1] \o sep \o Join(Tail(seq), sep)

-----------------------------------------------------------------------------
(* Type mapper *)

ConvertIntAfterText(sqliteType) ==
    LET type == ToLowerCase(sqliteType)
    IN  IF Includes(type, "text") THEN "TEXT"
        ELSE IF Includes(type, "int") THEN "INT"
        ELSE IF Includes(type, "real") \/ Includes(type, "float")
                \/ Includes(type, "double") THEN "DECIMAL(10,2)"
        ELSE IF Includes(type, "blob") THEN "BLOB"
        ELSE IF Includes(type, "char") THEN ToUpperCase(sqliteType)
        ELSE "TEXT"

convertSQLiteType(sqliteType) ==
    LET type == ToLowerCase(sqliteType)
    IN  IF Includes(type, "int") THEN "INT"
        ELSE IF Includes(type, "text") THEN "TEXT"
        ELSE IF Includes(type, "real") \/ Includes(type, "float")
                \/ Includes(type, "double") THEN "DECIMAL(10,2)"
        ELSE IF Includes(type, "blob") THEN "BLOB"
        ELSE IF Includes(type, "char") THEN ToUpperCase(sqliteType)
        ELSE IF Includes(type, "varchar") THEN ToUpperCase(sqliteType)
        ELSE "TEXT"

-----------------------------------------------------------------------------
(* Table definition *)

\* A ColumnInfo row of PRAGMA table_info: notnull and pk are numbers used as
\* truth values (pk is the 1-based position in the primary key, 0 if none).

ColumnDefQuotedDefault(col) ==
    LET named    == "  " \o Backtick \o col.name \o Backtick
        typed    == named \o " " \o convertSQLiteType(col.type)
        notnulld == IF col.notnull # 0 /\ ~(col.pk # 0)
                    THEN typed \o " NOT NULL" ELSE typed
        keyed    == IF col.pk # 0
                    THEN (IF Includes(ToLowerCase(col.type), "integer")
                          THEN notnulld \o " PRIMARY KEY" \o " AUTO_INCREMENT"
                          ELSE notnulld \o " PRIMARY KEY")
                    ELSE notnulld
    IN  IF col.dflt_value # Null
        THEN keyed \o " DEFAULT '" \o col.dflt_value.s \o "'"
        ELSE keyed

ColumnDefAutoIncrementAnyKey(col) ==
    LET named    == "  " \o Backtick \o col.name \o Backtick
        typed    == named \o " " \o convertSQLiteType(col.type)
        notnulld == IF col.notnull # 0 /\ ~(col.pk # 0)
                    THEN typed \o " NOT NULL" ELSE typed
        keyed    == IF col.pk # 0
                    THEN notnulld \o " PRIMARY KEY" \o " AUTO_INCREMENT"
                    ELSE notnulld
    IN  IF col.dflt_value # Null
        THEN keyed \o " DEFAULT " \o col.dflt_value.s
        ELSE keyed

\* The callback of columns.map in getCreateTableSQL.
ColumnDef(col) ==
    LET named    == "  " \o Backtick \o col.name \o Backtick
        typed    == named \o " " \o convertSQLiteType(col.type)
        notnulld == IF col.notnull # 0 /\ ~(col.pk # 0)
                    THEN typed \o " NOT NULL" ELSE typed
        keyed    == IF col.pk # 0
                    THEN (IF Includes(ToLowerCase(col.type), "integer")
                          THEN notnulld \o " PRIMARY KEY" \o " AUTO_INCREMENT"
                          ELSE notnulld \o " PRIMARY KEY")
                    ELSE notnulld
    IN  IF col.dflt_value # Null
        THEN keyed \o " DEFAULT " \o col.dflt_value.s
        ELSE keyed

\* getCreateTableSQL, given the rows getColumnInfo resolved with.
CreateTableSQL(tableName, columns) ==
    "CREATE TABLE " \o Backtick \o tableName \o Backtick \o " (\n"
        \o Join([i \in 1..Len(columns) |-> ColumnDef(columns[i])], ",\n")
        \o "\n);"

-----------------------------------------------------------------------------
(* Schema reader: the queries and the source database they read *)

MaxRows == 2

RECURSIVE Like(_, _)
\* SQLite's  s LIKE p : % matches any run of characters, _ any one
\* character, any other character itself, ASCII letters without case.
Like(p, s) ==
    IF p = "" THEN s = ""
    ELSE IF Head(p) = "%" THEN Like(Tail(p), s) \/ (s # "" /\ Like(p, Tail(s)))
    ELSE IF s = "" THEN FALSE
    ELSE /\ Head(p) = "_" \/ ToLowerCase(Head(p)) = ToLowerCase(Head(s))
         /\ Like(Tail(p), Tail(s))

\* The characters of the model's names in increasing code-point order.
CodeOrder == "0123456789ABCDEFGHIJKLMNOPQRSTUVWXYZ_abcdefghijklmnopqrstuvwxyz"

RECURSIVE BinaryLess(_, _)
\* a < b under SQLite's default BINARY collation (ORDER BY name).
BinaryLess(a, b) ==
    IF b = "" THEN FALSE
    ELSE IF a = "" THEN TRUE
    ELSE IF Head(a) = Head(b) THEN BinaryLess(Tail(a), Tail(b))
    ELSE IndexOf(Head(a), CodeOrder) < IndexOf(Head(b), CodeOrder)

RECURSIVE OrderBy(_)
OrderBy(names) ==
    IF names = {} THEN <<>>
    ELSE LET least == CHOOSE n \in names : \A m \in names \ {n} : BinaryLess(n, m)
         IN  <<least>> \o OrderBy(names \ {least})

\* The rows the query of getTables selects, mapped to their names.
GetTables(sqliteMaster) ==
    OrderBy({ r.name : r \in { m \in sqliteMaster :
                                 m.type = "table" /\ ~Like("sqlite_%", m.name) } })

\* What sqlite_master may hold: user tables, the engine's own table, an index.
MasterPool ==
    { [type |-> "table", name |-> "items"],
      [type |-> "table", name |-> "Users"],
      [type |-> "table", name |-> "sqlitedata"],
      [type |-> "table", name |-> "sqlite_sequence"],
      [type |-> "index", name |-> "idx_items_name"] }

Column(name, type, notnull, dflt, pk) ==
    [name |-> name, type |-> type, notnull |-> notnull, dflt_value |-> dflt, pk |-> pk]

\* PRAGMA table_info of the tables of the source.
TableInfo(tableName) ==
    CASE tableName = "items" ->
           << Column("id", "INTEGER", 0, Null, 1),
              Column("name", "TEXT", 1, Null, 0) >>
      [] tableName = "Users" ->
           << Column("email", "varchar(50)", 1, Null, 1),
              Column("age", "INT", 0, Str("0"), 0) >>
      [] OTHER ->
           << Column("name", "", 0, Null, 0),
              Column("seq", "", 0, Null, 0) >>

Row2(k1, v1, k2, v2) == << [k |-> k1, v |-> v1], [k |-> k2, v |-> v2] >>

\* The rows a table of the source may hold, as the engine returns them
\* under the affinity of each column: items.id is the rowid and an integer,
\* items.name and Users.email are text and not null, Users.age (INT) is
\* null, an integer or a text that is no number.
RowPool(tableName) ==
    CASE tableName = "items" ->
           { Row2("id", Num(1), "name", Str("Tea")),
             Row2("id", Num(2), "name", Str("O'Brien's")),
             Row2("id", Num(3), "name", Str("")) }
      [] tableName = "Users" ->
           { Row2("email", Str("a@b.c"), "age", Null),
             Row2("email", Str("d@e.f"), "age", Str("n/a")),
             Row2("email", Str("7"), "age", Num(7)) }
      [] OTHER ->
           { Row2("name", Str("items"), "seq", Num(2)) }

\* No two rows of a scan share the value of the first column, the primary
\* key of the tables of the source.
DistinctKeys(rows) ==
    \A i \in 1..Len(rows), j \in 1..Len(rows) : i # j => rows[i][1].v # rows[j][1].v

\* A scan of items goes by rowid, that is by id.
InRowidOrder(rows) ==
    \A i \in 1..Len(rows), j \in 1..Len(rows) : i < j => rows[i][1].v.n < rows[j][1].v.n

\* The results of SELECT * : up to MaxRows rows of distinct keys; by rowid
\* for items, in order of insertion (any order of the keys) for Users.
Scans(tableName) ==
    { rows \in UNION { [1..n -> RowPool(tableName)] : n \in 0..MaxRows } :
        /\ DistinctKeys(rows)
        /\ tableName = "items" => InRowidOrder(rows) }

-----------------------------------------------------------------------------
(* Insertion statements *)

\* A row object of db.all: the sequence of its [k, v] properties in key
\* order (the order of the result columns).
Keys(row) == [i \in 1..Len(row) |-> row[i].k]

\* row[col]
Get(row, col) == row[CHOOSE i \in 1..Len(row) : row[i].k = col].v

RECURSIVE ReplaceFirst(_, _, _)
\* String.prototype.replace with a pattern that is not global.
ReplaceFirst(s, c, by) ==
    IF s = "" THEN ""
    ELSE IF Head(s) = c THEN by \o Tail(s)
    ELSE Head(s) \o ReplaceFirst(Tail(s), c, by)

RECURSIVE ReplaceAll(_, _, _)
\* String.prototype.replace with a global one-character pattern.
ReplaceAll(s, c, by) ==
    IF s = "" THEN ""
    ELSE (IF Head(s) = c THEN by ELSE Head(s)) \o ReplaceAll(Tail(s), c, by)

RenderValueFirstQuoteOnly(value) ==
    IF value = Null THEN "NULL"
    ELSE IF value.t = "string" THEN "'" \o ReplaceFirst(value.s, "'", "''") \o "'"
    ELSE ToString(value.n)

\* The callback of columns.map in getInsertStatements, followed by the
\* conversion to string that join applies to a number.
RenderValue(value) ==
    IF value = Null THEN "NULL"
    ELSE IF value.t = "string" THEN "'" \o ReplaceAll(value.s, "'", "''") \o "'"
    ELSE ToString(value.n)

InsertStatementsByDeclaredType(tableName, rows) ==
    IF Len(rows) = 0 THEN <<>>
    ELSE LET columns == Keys(rows[1])
             columnList ==
                 Join([j \in 1..Len(columns) |-> Backtick \o columns[j] \o Backtick], ", ")
             info == TableInfo(tableName)
             declared(col) == info[CHOOSE i \in 1..Len(info) : info[i].name = col].type
             bare(value) == IF value.t = "string"
                            THEN ReplaceAll(value.s, "'", "''") ELSE ToString(value.n)
             typed(col, value) ==
                 IF value = Null THEN "NULL"
                 ELSE IF convertSQLiteType(declared(col)) = "INT" THEN bare(value)
                 ELSE "'" \o bare(value) \o "'"
             values(row) ==
                 Join([j \in 1..Len(columns) |-> typed(columns[j], Get(row, columns[j]))], ", ")
         IN  [r \in 1..Len(rows) |->
                 "INSERT INTO " \o Backtick \o tableName \o Backtick \o " ("
                     \o columnList \o ") VALUES (" \o values(rows[r]) \o ");"]

\* The callback of db.all in getInsertStatements, given the rows of the scan.
InsertStatements(tableName, rows) ==
    IF Len(rows) = 0 THEN <<>>
    ELSE LET columns == Keys(rows[1])
             columnList ==
                 Join([j \in 1..Len(columns) |-> Backtick \o columns[j] \o Backtick], ", ")
             values(row) ==
                 Join([j \in 1..Len(columns) |-> RenderValue(Get(row, columns[j]))], ", ")
         IN  [r \in 1..Len(rows) |->
                 "INSERT INTO " \o Backtick \o tableName \o Backtick \o " ("
                     \o columnList \o ") VALUES (" \o values(rows[r]) \o ");"]

Timestamps == { "2024-01-01T00:00:00.000Z", "2025-06-30T12:34:56.789Z" }

OldContent == Str("-- previous export")

-----------------------------------------------------------------------------
(* The export run: main() and SQLiteToSQLExporter.export() *)

Init ==
    /\ pc = "Idle"
    /\ master \in SUBSET MasterPool
    /\ handle = "none"
    /\ tables = <<>>
    /\ idx = 0
    /\ sqlStatements = <<>>
    /\ file \in {Null, OldContent}
    /\ writes = 0
    /\ queries = <<>>
    /\ scanned = <<>>
    /\ failure = "none"
    /\ arg = Null
    /\ result = Null

\* The catch of main(): report and process.exit(1); close() is not called.
Fail(kind) ==
    /\ pc' = "Failed"
    /\ failure' = kind
    /\ UNCHANGED <<master, handle, tables, idx, sqlStatements, file, writes,
                   queries, scanned, arg, result>>

\* The for..of loop of export() from the table at position next up to its
\* first await, or, past the last table, up to the await of fs.writeFile.
Advance(tbls, next, stmts) ==
    /\ idx' = next
    /\ IF next <= Len(tbls)
       THEN /\ sqlStatements' = Append(stmts, "-- Table: " \o tbls[next])
            /\ queries' = Append(queries, [q |-> "columns", table |-> tbls[next]])
            /\ writes' = writes
            /\ pc' = "ReadingSchema"
       ELSE /\ sqlStatements' = stmts
            /\ queries' = queries
            /\ writes' = writes + 1
            /\ pc' = "Writing"

DataSectionAlways(tableName, insertStatements) ==
    <<"-- Data for table: " \o tableName>> \o insertStatements \o <<"">>

\* What export() pushes for the insertions of one table.
DataSection(tableName, insertStatements) ==
    IF Len(insertStatements) > 0
    THEN <<"-- Data for table: " \o tableName>> \o insertStatements \o <<"">>
    ELSE <<>>

\* main(): the input file is missing or no file, or the output directory
\* cannot be made.
InputRejected ==
    /\ pc = "Idle"
    /\ Fail("input")

\* main() constructs the exporter and calls export(), which runs up to the
\* await of getTables.
Start ==
    /\ pc = "Idle"
    /\ \E ts \in Timestamps :
         sqlStatements' = << "-- Exported from SQLite database",
                             "-- Generated on " \o ts,
                             "" >>
    /\ handle' = "open"
    /\ queries' = Append(queries, [q |-> "tables"])
    /\ pc' = "Connecting"
    /\ UNCHANGED <<master, tables, idx, file, writes, scanned, failure, arg, result>>

TablesErr ==
    /\ pc = "Connecting"
    /\ Fail("tables")

TablesOk ==
    /\ pc = "Connecting"
    /\ tables' = GetTables(master)
    /\ Advance(tables', 1, sqlStatements)
    /\ UNCHANGED <<master, handle, file, scanned, failure, arg, result>>

SchemaErrSkipsTable ==
    /\ pc = "ReadingSchema"
    /\ scanned' = Append(scanned, <<>>)
    /\ Advance(tables, idx + 1, sqlStatements)
    /\ UNCHANGED <<master, handle, tables, file, failure, arg, result>>

SchemaErr ==
    /\ pc = "ReadingSchema"
    /\ Fail("columns")

\* getColumnInfo resolves: the definition is rendered and the row scan issued.
SchemaOk ==
    /\ pc = "ReadingSchema"
    /\ LET tableName == tables[idx]
           columns == TableInfo(tableName)
       IN  /\ sqlStatements' = sqlStatements \o <<CreateTableSQL(tableName, columns), "">>
           /\ queries' = Append(queries, [q |-> "rows", table |-> tableName])
    /\ pc' = "ReadingRows"
    /\ UNCHANGED <<master, handle, tables, idx, file, writes, scanned, failure,
                   arg, result>>

RowsErrFlushesPartial ==
    /\ pc = "ReadingRows"
    /\ file' = Str(Join(sqlStatements, "\n"))
    /\ writes' = writes + 1
    /\ pc' = "Failed"
    /\ failure' = "rows"
    /\ UNCHANGED <<master, handle, tables, idx, sqlStatements, queries, scanned,
                   arg, result>>

RowsErr ==
    /\ pc = "ReadingRows"
    /\ Fail("rows")

\* The row scan resolves: the insertions are rendered and the loop goes on.
RowsOk ==
    /\ pc = "ReadingRows"
    /\ \E rows \in Scans(tables[idx]) :
         LET tableName == tables[idx]
             insertStatements == InsertStatements(tableName, rows)
             stmts == sqlStatements \o DataSection(tableName, insertStatements)
         IN  /\ scanned' = Append(scanned, rows)
             /\ Advance(tables, idx + 1, stmts)
    /\ UNCHANGED <<master, handle, tables, file, failure, arg, result>>

\* The beginnings of a text, the empty one and the whole text included.
Prefixes(text) == { SubSeq(text, 1, n) : n \in 0..Len(text) }

\* fs.writeFile rejects: the destination is untouched (it could not be
\* opened) or it was truncated and holds a beginning of the document, as
\* much as was written before the failure.
WriteErr ==
    /\ pc = "Writing"
    /\ file' \in {file} \cup { Str(p) : p \in Prefixes(Join(sqlStatements, "\n")) }
    /\ pc' = "Failed"
    /\ failure' = "write"
    /\ UNCHANGED <<master, handle, tables, idx, sqlStatements, writes, queries,
                   scanned, arg, result>>

\* fs.writeFile resolves, export() returns and main() closes the exporter,
\* then reports up to its await of fs.stat on the destination.
WriteOk ==
    /\ pc = "Writing"
    /\ file' = Str(Join(sqlStatements, "\n"))
    /\ handle' = "closed"
    /\ pc' = "Done"
    /\ UNCHANGED <<master, tables, idx, sqlStatements, writes, queries, scanned,
                   failure, arg, result>>

\* fs.stat of the destination resolves: main() prints the size and returns.
StatOk ==
    /\ pc = "Done"
    /\ pc' = "Exited"
    /\ UNCHANGED <<master, handle, tables, idx, sqlStatements, file, writes,
                   queries, scanned, failure, arg, result>>

\* fs.stat rejects (the destination was removed by another party, or cannot
\* be read): the catch of main() reports the failure and exits.
StatErr ==
    /\ pc = "Done"
    /\ file' \in {file, Null}
    /\ pc' = "Failed"
    /\ failure' = "stat"
    /\ UNCHANGED <<master, handle, tables, idx, sqlStatements, writes, queries,
                   scanned, arg, result>>

Next ==
    \/ InputRejected
    \/ Start
    \/ TablesErr
    \/ TablesOk
    \/ SchemaErr
    \/ SchemaOk
    \/ RowsErr
    \/ RowsOk
    \/ WriteErr
    \/ WriteOk
    \/ StatOk
    \/ StatErr

Spec == Init /\ [][Next]_vars

-----------------------------------------------------------------------------
(* The rendering functions applied on their own: arg is the input, drawn   *)
(* from a pool, and result the output once pc = "return".                  *)

MaxTextLen == 4

NoRun ==
    /\ master = {}
    /\ handle = "none"
    /\ tables = <<>>
    /\ idx = 0
    /\ sqlStatements = <<>>
    /\ file = Null
    /\ writes = 0
    /\ queries = <<>>
    /\ scanned = <<>>
    /\ failure = "none"

\* Declared types: SQLite accepts any type name, in any case, or none.
TypePool ==
    { "INTEGER", "Integer", "INT", "BIGINT", "smallint", "TEXT", "text", "CLOB",
      "REAL", "FLOAT", "double precision", "BLOB", "VARCHAR(50)", "nchar(10)",
      "character", "point", "interval", "floating point", "NUMERIC", "DATETIME",
      "", "inttext", "textreal", "doubleblob", "blobchar", "charint" }

DefaultPool == { Null, Str("0"), Str("'x'"), Str("CURRENT_TIMESTAMP"), Str("NULL") }

ColumnPool ==
    { Column("c", type, notnull, dflt, pk) :
        type \in TypePool, notnull \in {0, 1}, dflt \in DefaultPool, pk \in {0, 1, 2} }

InitColumn ==
    /\ pc = "call"
    /\ arg \in ColumnPool
    /\ result = Null
    /\ NoRun

\* One call of the columns.map callback of getCreateTableSQL; sqlType is its
\* local variable.
RenderColumn ==
    /\ pc = "call"
    /\ result' = [sqlType |-> convertSQLiteType(arg.type), def |-> ColumnDef(arg)]
    /\ pc' = "return"
    /\ UNCHANGED <<arg, runVars>>

NextColumn == RenderColumn

SpecColumn == InitColumn /\ [][NextColumn]_vars

TextAlphabet == { "a", "'", " " }

RECURSIVE Texts(_)
\* Every string over TextAlphabet of length n or less.
Texts(n) ==
    IF n = 0 THEN {""}
    ELSE LET shorter == Texts(n - 1)
         IN  shorter \cup { c \o s : c \in TextAlphabet, s \in shorter }

InitCell ==
    /\ pc = "call"
    /\ arg \in { Str(s) : s \in Texts(MaxTextLen) } \cup { Null, Num(0), Num(7), Num(-12) }
    /\ result = Null
    /\ NoRun

\* One call of the columns.map callback of getInsertStatements.
RenderCell ==
    /\ pc = "call"
    /\ result' = RenderValue(arg)
    /\ pc' = "return"
    /\ UNCHANGED <<arg, runVars>>

NextCell == RenderCell

SpecCell == InitCell /\ [][NextCell]_vars

\* Users.email, varchar(50) NOT NULL: text affinity, every value comes back
\* as text.
EmailPool == { Str("0"), Str("-15"), Str("7"), Str("o'neil@x.y") }

\* Users.age, INT: integer affinity, a text that reads as a number comes
\* back as the number, any other text as it is; null is allowed.
AgePool == { Null, Num(0), Num(-15), Num(7), Str("n/a") }

\* Scans of Users(email varchar(50) primary key, age INT): up to MaxRows rows
\* of distinct keys, in order of insertion.
UsersScans ==
    { rows \in UNION { [1..n -> { Row2("email", e, "age", a) :
                                    e \in EmailPool, a \in AgePool }] :
                         n \in 0..MaxRows } :
        DistinctKeys(rows) }

InitRows ==
    /\ pc = "call"
    /\ arg \in { [tableName |-> "Users", rows |-> rows] : rows \in UsersScans }
    /\ result = Null
    /\ NoRun

\* The db.all callback of getInsertStatements on the rows of one scan.
RenderRows ==
    /\ pc = "call"
    /\ result' = InsertStatements(arg.tableName, arg.rows)
    /\ pc' = "return"
    /\ UNCHANGED <<arg, runVars>>

NextRows == RenderRows

SpecRows == InitRows /\ [][NextRows]_vars

-----------------------------------------------------------------------------
(* Vocabulary of the properties *)

StartsWith(s, prefix) ==
    Len(s) >= Len(prefix) /\ SubSeq(s, 1, Len(prefix)) = prefix

EndsWith(s, suffix) ==
    Len(s) >= Len(suffix) /\ SubSeq(s, Len(s) - Len(suffix) + 1, Len(s)) = suffix

\* Number of positions of s where the one-character string c stands.
Count(s, c) == Cardinality({ i \in 1..Len(s) : SubSeq(s, i, i) = c })

RECURSIVE SplitFrom(_, _)
SplitFrom(text, from) ==
    LET breaks == { i \in from..Len(text) : SubSeq(text, i, i) = "\n" }
    IN  IF breaks = {} THEN << SubSeq(text, from, Len(text)) >>
        ELSE LET first == CHOOSE i \in breaks : \A j \in breaks : i <= j
             IN  << SubSeq(text, from, first - 1) >> \o SplitFrom(text, first + 1)

\* The lines of a text.
Lines(text) == SplitFrom(text, 1)

ColumnRendered == pc = "return" /\ arg \in ColumnPool

HasPrimaryKey == Includes(result.def, " PRIMARY KEY")

HasAutoIncrement == Includes(result.def, " AUTO_INCREMENT")

-----------------------------------------------------------------------------
(* C1: primary-key markers of a column definition *)

\* C1 as stated: a primary-key column's definition contains PRIMARY KEY, and
\* AUTO_INCREMENT exactly when the type mapper maps its declared type to INT;
\* a column that is no primary key has neither marker.
C1_AutoIncrementIffMappedToInt ==
    ColumnRendered =>
        IF arg.pk # 0
        THEN HasPrimaryKey /\ (HasAutoIncrement <=> result.sqlType = "INT")
        ELSE ~HasPrimaryKey /\ ~HasAutoIncrement

\* C1 amended: a primary-key column's definition contains PRIMARY KEY, and
\* AUTO_INCREMENT exactly when its declared type, in lower case, contains
\* "integer"; a column that is no primary key has neither marker.
C1_AutoIncrementIffDeclaredInteger ==
    ColumnRendered =>
        IF arg.pk # 0
        THEN /\ HasPrimaryKey
             /\ HasAutoIncrement <=> Includes(ToLowerCase(arg.type), "integer")
        ELSE ~HasPrimaryKey /\ ~HasAutoIncrement

\* A primary key declared BIGINT is mapped to INT and rendered without
\* AUTO_INCREMENT.
C1_Witness ==
    /\ ColumnRendered
    /\ arg.pk # 0
    /\ arg.type = "BIGINT"
    /\ result.sqlType = "INT"
    /\ HasPrimaryKey
    /\ ~HasAutoIncrement

-----------------------------------------------------------------------------
(* C2: the type mapper's priority order *)

\* The rules in priority order: the keywords of each and what it yields
\* ("" stands for the declared type in upper case).
TypeRules ==
    << [keywords |-> {"int"}, yields |-> "INT"],
       [keywords |-> {"text"}, yields |-> "TEXT"],
       [keywords |-> {"real", "float", "double"}, yields |-> "DECIMAL(10,2)"],
       [keywords |-> {"blob"}, yields |-> "BLOB"],
       [keywords |-> {"char"}, yields |-> ""] >>

RuleMatches(i, declared) ==
    \E kw \in TypeRules[i].keywords : Includes(ToLowerCase(declared), kw)

FirstMatch(declared) ==
    LET matching == { i \in 1..Len(TypeRules) : RuleMatches(i, declared) }
    IN  IF matching = {} THEN "TEXT"
        ELSE LET first == CHOOSE i \in matching : \A j \in matching : i <= j
             IN  IF TypeRules[first].yields = "" THEN ToUpperCase(declared)
                 ELSE TypeRules[first].yields

\* C2: the mapped type is what the earliest matching rule of the priority
\* order yields, and TEXT when no rule matches.
C2_FirstMatchWins ==
    ColumnRendered => result.sqlType = FirstMatch(arg.type)

\* A declared type holding the keywords of two rules is decided by the first.
C2_Witness ==
    /\ ColumnRendered
    /\ arg.type = "floating point"
    /\ RuleMatches(1, arg.type) /\ RuleMatches(3, arg.type)
    /\ result.sqlType = "INT"

-----------------------------------------------------------------------------
(* C8: the DEFAULT clause of a column definition *)

DefinitionTails(sqlType) ==
    { " " \o sqlType, " NOT NULL", " PRIMARY KEY", " AUTO_INCREMENT" }

\* C8: the definition has a DEFAULT clause exactly when the reported default
\* is not null; the clause is the reported text unchanged and closes the
\* definition, after the type and the markers.
C8_DefaultClauseVerbatim ==
    ColumnRendered =>
        IF arg.dflt_value = Null
        THEN ~Includes(result.def, " DEFAULT ")
        ELSE LET clause == " DEFAULT " \o arg.dflt_value.s
                 before == SubSeq(result.def, 1, Len(result.def) - Len(clause))
             IN  /\ EndsWith(result.def, clause)
                 /\ ~Includes(before, " DEFAULT ")
                 /\ \E tail \in DefinitionTails(result.sqlType) : EndsWith(before, tail)

\* A quoted default after the markers of an auto-increment key.
C8_Witness ==
    /\ ColumnRendered
    /\ arg.dflt_value = Str("'x'")
    /\ arg.pk # 0
    /\ EndsWith(result.def, " PRIMARY KEY AUTO_INCREMENT DEFAULT 'x'")

-----------------------------------------------------------------------------
(* C4: text literals *)

RECURSIVE ParseLiteralBody(_)
\* Reads the inside of a single-quoted SQL literal: two quotes stand for
\* one, a quote on its own is an error.
ParseLiteralBody(body) ==
    IF body = "" THEN [ok |-> TRUE, text |-> ""]
    ELSE IF Head(body) # "'"
         THEN LET rest == ParseLiteralBody(Tail(body))
              IN  [ok |-> rest.ok, text |-> Head(body) \o rest.text]
    ELSE IF Len(body) >= 2 /\ SubSeq(body, 2, 2) = "'"
         THEN LET rest == ParseLiteralBody(SubSeq(body, 3, Len(body)))
              IN  [ok |-> rest.ok, text |-> "'" \o rest.text]
    ELSE [ok |-> FALSE, text |-> ""]

TextRendered == pc = "return" /\ arg.t = "string"

\* C4: a text value is rendered between single quotes with each quote of
\* the content doubled, and reading the literal back gives the value.
C4_QuoteDoublingRoundTrips ==
    TextRendered =>
        /\ Len(result) >= 2
        /\ StartsWith(result, "'") /\ EndsWith(result, "'")
        /\ LET body == SubSeq(result, 2, Len(result) - 1)
           IN  /\ Len(body) = Len(arg.s) + Count(arg.s, "'")
               /\ Count(body, "'") = 2 * Count(arg.s, "'")
               /\ ParseLiteralBody(body) = [ok |-> TRUE, text |-> arg.s]

\* A value with two quotes, one of them at its end.
C4_Witness ==
    /\ TextRendered
    /\ arg.s = "a' '"
    /\ result = "'a'' '''"

-----------------------------------------------------------------------------
(* C9: one INSERT per row, by runtime value *)

\* The literal of a value, by its runtime type alone.
LiteralOf(value) ==
    CASE value.t = "null"   -> "NULL"
      [] value.t = "number" -> ToString(value.n)
      [] value.t = "string" ->
           "'" \o Join([i \in 1..Len(value.s) |->
                           IF SubSeq(value.s, i, i) = "'" THEN "''"
                           ELSE SubSeq(value.s, i, i)], "") \o "'"

\* The statement of a row under the column list of the first row.
InsertOf(tableName, firstRow, row) ==
    LET names == [j \in 1..Len(firstRow) |-> Backtick \o firstRow[j].k \o Backtick]
        cells == [j \in 1..Len(firstRow) |->
                     LiteralOf((CHOOSE p \in { row[i] : i \in 1..Len(row) } :
                                   p.k = firstRow[j].k).v)]
    IN  "INSERT INTO " \o Backtick \o tableName \o Backtick \o " (" \o Join(names, ", ")
            \o ") VALUES (" \o Join(cells, ", ") \o ");"

RowsRendered == pc = "return" /\ arg \in [tableName : {"Users"}, rows : UsersScans]

\* C9: a scan of k rows gives k statements, the i-th for the i-th row, all
\* under the column list of the first row; NULL and numbers are unquoted and
\* text is quoted, by the value of the cell and not by the declared type of
\* its column.
C9_OneInsertPerRowByRuntimeValue ==
    RowsRendered =>
        /\ Len(result) = Len(arg.rows)
        /\ \A i \in 1..Len(arg.rows) :
             result[i] = InsertOf(arg.tableName, arg.rows[1], arg.rows[i])

\* Two rows: a text in the column declared INT, then the text 7 beside a
\* null; the text of digits is quoted as any text.
C9_Witness ==
    /\ RowsRendered
    /\ Len(arg.rows) = 2
    /\ arg.rows[1] = Row2("email", Str("-15"), "age", Str("n/a"))
    /\ arg.rows[2] = Row2("email", Str("7"), "age", Null)
    /\ EndsWith(result[1], " VALUES ('-15', 'n/a');")
    /\ EndsWith(result[2], " VALUES ('7', NULL);")

-----------------------------------------------------------------------------
(* Vocabulary of the properties of a run *)

\* The lines of the written document.
Document == Lines(file.s)

\* export() resolved: the document is written, the stat of main() pending
\* or resolved.
Exported == pc \in {"Done", "Exited"} /\ failure = "none"

CreateLine(tableName) == "CREATE TABLE " \o Backtick \o tableName \o Backtick \o " ("

InsertPrefix(tableName) == "INSERT INTO " \o Backtick \o tableName \o Backtick \o " ("

\* The positions of the lines of doc that satisfy a condition.
LinesEqual(doc, line) == { i \in 1..Len(doc) : doc[i] = line }

LinesStarting(doc, prefix) == { i \in 1..Len(doc) : StartsWith(doc[i], prefix) }

\* SQLite reserves the names that begin with sqlite_ (in any case).
Reserved(name) == Len(name) >= 7 /\ ToLowerCase(SubSeq(name, 1, 7)) = "sqlite_"

UserTables == { m.name : m \in { r \in master : r.type = "table" /\ ~Reserved(r.name) } }

-----------------------------------------------------------------------------
(* C3: one definition per user table, in order *)

\* C3: the document of a successful export has exactly one CREATE TABLE
\* statement for each table whose name is not reserved, none for another
\* table, and the names appear in strictly increasing order.
C3_OneDefinitionPerUserTable ==
    Exported =>
        LET doc == Document
            at(n) == LinesStarting(doc, CreateLine(n))
        IN  /\ Cardinality(LinesStarting(doc, "CREATE TABLE ")) = Cardinality(UserTables)
            /\ \A n \in UserTables : Cardinality(at(n)) = 1
            /\ \A n \in UserTables, m \in UserTables :
                 \A i \in at(n), j \in at(m) : i < j => BinaryLess(n, m)

-----------------------------------------------------------------------------
(* C5: the handle is closed in every terminal state *)

\* C5: when a run has ended, in Done (or after its report, Exited) or in
\* Failed, a database handle that was opened has been closed.
C5_HandleClosedWhenRunEnds ==
    pc \in {"Done", "Exited", "Failed"} /\ handle # "none" => handle = "closed"

-----------------------------------------------------------------------------
(* C6: at most one write, after every read *)

ReadFailures == {"tables", "columns", "rows"}

\* C6: the destination is written at most once and only after the table
\* list, every table's columns and every table's rows were read; when a read
\* fails the run ends failed with no write, the destination as it was.
C6_SingleWriteAfterAllReads ==
    /\ writes <= 1
    /\ writes = 1 =>
         /\ pc \in {"Writing", "Done", "Exited", "Failed"}
         /\ failure \notin ReadFailures
         /\ Len(queries) = 1 + 2 * Len(tables)
         /\ Len(scanned) = Len(tables)
    /\ writes = 0 => file \in {Null, OldContent}
    /\ failure \in ReadFailures => pc = "Failed" /\ writes = 0

\* The scan of the second table fails with the lines of the first built.
C6_Witness ==
    /\ pc = "Failed"
    /\ failure = "rows"
    /\ idx = 2
    /\ Len(scanned[1]) = 2
    /\ \E i \in 1..Len(sqlStatements) : StartsWith(sqlStatements[i], "INSERT INTO ")
    /\ writes = 0
    /\ file = OldContent

-----------------------------------------------------------------------------
(* C7: tables without rows *)

\* C7: in the document, a table is announced by its comment, followed by its
\* CREATE TABLE statement; a table of no rows has no INSERT and no data
\* comment, a table with rows has its data comment once, after the
\* definition and before its first INSERT, and one INSERT per row.
C7_DataSectionOnlyWithRows ==
    Exported =>
        LET doc == Document
        IN  \A i \in 1..Len(tables) :
            LET name     == tables[i]
                comments == LinesEqual(doc, "-- Table: " \o name)
                creates  == LinesStarting(doc, CreateLine(name))
                datas    == LinesEqual(doc, "-- Data for table: " \o name)
                inserts  == LinesStarting(doc, InsertPrefix(name))
            IN  /\ Cardinality(comments) = 1
                /\ Cardinality(creates) = 1
                /\ \A c \in comments : c + 1 \in creates
                /\ Cardinality(inserts) = Len(scanned[i])
                /\ IF Len(scanned[i]) = 0
                   THEN datas = {}
                   ELSE /\ Cardinality(datas) = 1
                        /\ \A d \in datas :
                             /\ \A c \in creates : c < d
                             /\ \A r \in inserts : d < r
                             /\ d + 1 \in inserts

\* A document with a table of no rows before a table with rows.
C7_Witness ==
    /\ Exported
    /\ Len(tables) = 2
    /\ Len(scanned[1]) = 0
    /\ Len(scanned[2]) = 2
    /\ LinesEqual(Document, "-- Data for table: " \o tables[1]) = {}
    /\ LinesEqual(Document, "-- Data for table: " \o tables[2]) # {}

-----------------------------------------------------------------------------
(* C10: the order of a run *)

\* Done is the end of export(); main() then reads the size of the
\* destination for its report, and the process ends in Exited or, when that
\* read fails, in Failed.
NonTerminal == {"Idle", "Connecting", "ReadingSchema", "ReadingRows", "Writing", "Done"}

\* The moves of Idle -> Connecting -> (ReadingSchema -> ReadingRows)* ->
\* Writing -> Done, the end of the process after Done, and the failure of
\* any state that is not terminal.
Transitions ==
    { <<"Idle", "Connecting">>,
      <<"Connecting", "ReadingSchema">>, <<"Connecting", "Writing">>,
      <<"ReadingSchema", "ReadingRows">>,
      <<"ReadingRows", "ReadingSchema">>, <<"ReadingRows", "Writing">>,
      <<"Writing", "Done">>, <<"Done", "Exited">> }
        \cup { <<from, "Failed">> : from \in NonTerminal }

RECURSIVE TableQueries(_)
TableQueries(tbls) ==
    IF tbls = <<>> THEN <<>>
    ELSE << [q |-> "columns", table |-> Head(tbls)],
            [q |-> "rows", table |-> Head(tbls)] >> \o TableQueries(Tail(tbls))

\* The queries are the table list, then for each table in list order its
\* columns and then its rows, as far as the run has come.
QueriesInListOrder ==
    LET all == << [q |-> "tables"] >> \o TableQueries(tables)
    IN  /\ Len(queries) <= Len(all)
        /\ queries = SubSeq(all, 1, Len(queries))

\* A query about the table at position i is issued only when the scans of
\* the i - 1 tables before it have resolved.
OneTableAtATime ==
    \A k \in 2..Len(queries) : Len(scanned) >= (k \div 2) - 1

FailStep == Next /\ pc' = "Failed"

\* A step into Failed shows by itself that its state can fail; of any
\* other step the state is asked whether a failing step is enabled in it.
RunStep ==
    /\ <<pc, pc'>> \in Transitions
    /\ pc' # "Failed" => ENABLED FailStep
    /\ QueriesInListOrder' /\ OneTableAtATime'
    /\ pc' = "Failed" => UNCHANGED <<queries, scanned, sqlStatements, writes, handle>>

\* C10: every step of a run is a move of the state machine; the queries go
\* table by table in list order, columns before rows, one table at a time;
\* every state that is not terminal can fail, the failing step issues no
\* query and no write, and no step leaves Failed.  After Done only the
\* report of main() follows: Exited, or Failed when its fs.stat rejects.
C10_RunFollowsStateMachine == [][RunStep]_vars

\* The scan of the first of two tables failed: nothing was asked about the
\* second and nothing written.
C10_Witness ==
    /\ pc = "Failed"
    /\ failure = "rows"
    /\ Len(tables) = 2
    /\ queries = << [q |-> "tables"],
                    [q |-> "columns", table |-> tables[1]],
                    [q |-> "rows", table |-> tables[1]] >>
    /\ writes = 0

=============================================================================
